---- MODULE Spec2Model ----
(***************************************************************************)
(* Model of train.py of Firefly: setup_everything, init_components, main.  *)
(* One run of the script is one behaviour.  The inputs of a run (the JSON  *)
(* arguments, the process environment, the DeepSpeed configuration and the *)
(* contents of the pretrained checkpoint) are fixed in the initial state.  *)
(* Strings whose characters matter (model_name_or_path) are sequences of   *)
(* one-character strings, so lower() and `in` are computed, not assumed.   *)
(***************************************************************************)
EXTENDS Integers, Sequences, FiniteSets, TLC

VARIABLES
    pc,             \* position of the script
    args,           \* CustomizedArguments: model_name_or_path, task_type
    training_args,  \* TrainingArguments: ddp_find_unused_parameters
    environ,        \* os.environ: WORLD_SIZE, LOCAL_RANK
    zero3,          \* value of is_deepspeed_zero3_enabled()
    ckpt,           \* what from_pretrained finds: model config and tokenizer
    device_map,     \* local of init_components: <<>> unbound, <<r>> = {"": r}
    model,          \* local of init_components: <<>> before the load
    tokenizer,      \* local of init_components: <<>> before the load
    train_dataset,  \* class of the dataset built, "None" before
    data_collator,  \* class of the collator built, "None" before
    trainer,        \* "None" or "Trainer"
    output_dir,     \* artifacts present under training_args.output_dir
    error,          \* exception that ended the process, "none" otherwise
    steps,          \* history: the steps completed so far, in order
    asserted,       \* history: assert statements evaluated so far
    constructed     \* history: dataset classes instantiated so far

vars == <<pc, args, training_args, environ, zero3, ckpt, device_map, model,
          tokenizer, train_dataset, data_collator, trainer, output_dir,
          error, steps, asserted, constructed>>

----------------------------------------------------------------------------
(* Bounds *)

MaxParts == 2       \* a model name is made of at most MaxParts fragments
MaxTokenId == 1     \* token identifiers range over 0..MaxTokenId

----------------------------------------------------------------------------
(* Strings as character sequences: str.lower() and the `in` operator *)

UpperChars == <<"A","B","C","D","E","F","G","H","I","J","K","L","M",
                "N","O","P","Q","R","S","T","U","V","W","X","Y","Z">>
LowerChars == <<"a","b","c","d","e","f","g","h","i","j","k","l","m",
                "n","o","p","q","r","s","t","u","v","w","x","y","z">>

LowerChar(c) ==
    IF \E i \in 1..26 : UpperChars[i] = c
    THEN LowerChars[CHOOSE i \in 1..26 : UpperChars[i] = c]
    ELSE c

Lower(s) == [i \in 1..Len(s) |-> LowerChar(s[i])]

\* sub in s
Contains(s, sub) ==
    \E i \in 0..(Len(s) - Len(sub)) :
        \A j \in 1..Len(sub) : s[i + j] = sub[j]

\* the family markers tested by init_components
m_chatglm2 == <<"c","h","a","t","g","l","m","2">>
m_chatglm3 == <<"c","h","a","t","g","l","m","3">>
m_mistral  == <<"m","i","s","t","r","a","l">>
m_mixtral  == <<"m","i","x","t","r","a","l">>
m_zephyr   == <<"z","e","p","h","y","r">>
m_qwen     == <<"q","w","e","n">>

\* pieces of which the model names of the runs are made
Fragments ==
    { <<"C","h","a","t","G","L","M","2">>,
      <<"c","h","a","t","g","l","m","3">>,
      <<"M","i","s","t","r","a","l">>,
      <<"m","i","X","t","r","a","l">>,
      <<"Z","E","P","H","Y","R">>,
      <<"Q","w","e","n">>,
      <<"c","h","a","t","g","l","m">>,
      <<"Y","i">> }

RECURSIVE Flatten(_)
Flatten(parts) ==
    IF parts = <<>> THEN <<>> ELSE Head(parts) \o Flatten(Tail(parts))

ModelNames ==
    { Flatten(p) : p \in UNION { [1..n -> Fragments] : n \in 1..MaxParts } }

\* a few names, for the runs that vary the tokenizer instead
FewModelNames ==
    { <<"Q","w","e","n">>, <<"Y","i">> }

----------------------------------------------------------------------------
(* Optional values: <<>> is None, <<v>> is the value v *)

None == <<>>
Some(v) == <<v>>

OptTokenIds == {None} \cup { Some(v) : v \in 0..MaxTokenId }

\* tokenizers a checkpoint may hold; only QWenTokenizer has eod_id
Tokenizers ==
    [cls : {"QWenTokenizer"}, pad_token_id : OptTokenIds,
     bos_token_id : OptTokenIds, eos_token_id : OptTokenIds,
     eod_id : { Some(v) : v \in 0..MaxTokenId }]
    \cup
    [cls : {"ChatGLMTokenizer", "LlamaTokenizer"}, pad_token_id : OptTokenIds,
     bos_token_id : OptTokenIds, eos_token_id : OptTokenIds,
     eod_id : {None}]

\* a few tokenizers, for the runs that vary the model name instead
FewTokenizers ==
    { [cls |-> "QWenTokenizer", pad_token_id |-> None, bos_token_id |-> None,
       eos_token_id |-> None, eod_id |-> Some(1)],
      [cls |-> "ChatGLMTokenizer", pad_token_id |-> Some(0),
       bos_token_id |-> None, eos_token_id |-> Some(1), eod_id |-> None],
      [cls |-> "LlamaTokenizer", pad_token_id |-> None,
       bos_token_id |-> Some(0), eos_token_id |-> Some(1), eod_id |-> None],
      [cls |-> "LlamaTokenizer", pad_token_id |-> None,
       bos_token_id |-> None, eos_token_id |-> Some(1), eod_id |-> None] }

\* model.config of the checkpoint
Configs ==
    { [model_type |-> "llama", has_router_logits |-> FALSE],
      [model_type |-> "mixtral", has_router_logits |-> TRUE] }

TaskTypes == {"sft", "pretrain", "rm"}

Environs == [WORLD_SIZE : {"unset", "1", "2"}, LOCAL_RANK : {"unset", "1"}]

\* int() on the environment strings that occur
ParseInt(s) == CASE s = "0" -> 0 [] s = "1" -> 1 [] s = "2" -> 2

----------------------------------------------------------------------------
(* Initial states *)

InitLocals ==
    /\ pc = "start"
    /\ training_args = [ddp_find_unused_parameters |-> "default"]
    /\ device_map = <<>>
    /\ model = <<>>
    /\ tokenizer = <<>>
    /\ train_dataset = "None"
    /\ data_collator = "None"
    /\ trainer = "None"
    /\ output_dir = {}
    /\ error = "none"
    /\ steps = <<>>
    /\ asserted = <<>>
    /\ constructed = <<>>

InitInputs(names, toks) ==
    /\ args \in [model_name_or_path : names, task_type : TaskTypes]
    /\ environ \in Environs
    /\ zero3 \in BOOLEAN
    /\ ckpt \in [config : Configs, tokenizer : toks]

\* runs over all model names
Init == InitLocals /\ InitInputs(ModelNames, FewTokenizers)

\* runs over all tokenizers
InitTok == InitLocals /\ InitInputs(FewModelNames, Tokenizers)

----------------------------------------------------------------------------
(* setup_everything *)

SetupEverything ==
    /\ pc = "start"
    /\ output_dir' = output_dir \cup {"train.log"}
    /\ steps' = Append(steps, "setup_everything")
    /\ pc' = "init_distributed"
    /\ UNCHANGED <<args, training_args, environ, zero3, ckpt, device_map,
                   model, tokenizer, train_dataset, data_collator, trainer,
                   error, asserted, constructed>>

----------------------------------------------------------------------------
(* init_components: distributed set-up *)

\* int(os.environ.get("WORLD_SIZE", 1))
WorldSize(env) ==
    IF env.WORLD_SIZE = "unset" THEN 1 ELSE ParseInt(env.WORLD_SIZE)

\* int(os.environ.get("LOCAL_RANK") or 0)
LocalRank(env) ==
    IF env.LOCAL_RANK = "unset" THEN 0 ELSE ParseInt(env.LOCAL_RANK)

InitDistributed ==
    /\ pc = "init_distributed"
    /\ steps' = Append(steps, "init_distributed")
    /\ LET ddp == WorldSize(environ) # 1 IN
        /\ device_map' = IF ddp THEN Some(LocalRank(environ)) ELSE device_map
        /\ training_args' =
             [training_args EXCEPT !.ddp_find_unused_parameters =
                 IF ddp THEN "False" ELSE "None"]
    /\ pc' = "load_model"
    /\ UNCHANGED <<args, environ, zero3, ckpt, model, tokenizer,
                   train_dataset, data_collator, trainer, output_dir, error,
                   asserted, constructed>>

----------------------------------------------------------------------------
(* init_components: model *)

\* the expression  device_map if not is_deepspeed_zero3_enabled() else None
\* reads the local device_map only when ZeRO-3 is off
DeviceMapArgReadable == zero3 \/ device_map # <<>>

LoadedModel ==
    [device_map |-> IF ~zero3 THEN device_map ELSE None,
     low_cpu_mem_usage |-> ~zero3,
     model_type |-> ckpt.config.model_type,
     output_router_logits |-> ckpt.config.has_router_logits]

LoadModel ==
    /\ pc = "load_model"
    /\ IF DeviceMapArgReadable
       THEN /\ model' = Some(LoadedModel)
            /\ steps' = Append(steps, "load_model")
            /\ pc' = "load_tokenizer"
            /\ error' = error
       ELSE /\ error' = "UnboundLocalError"
            /\ pc' = "failed"
            /\ UNCHANGED <<model, steps>>
    /\ UNCHANGED <<args, training_args, environ, zero3, ckpt, device_map,
                   tokenizer, train_dataset, data_collator, trainer,
                   output_dir, asserted, constructed>>

----------------------------------------------------------------------------
(* init_components: tokenizer *)

LoadedTokenizer ==
    [cls |-> ckpt.tokenizer.cls,
     pad_token_id |-> ckpt.tokenizer.pad_token_id,
     bos_token_id |-> ckpt.tokenizer.bos_token_id,
     eos_token_id |-> ckpt.tokenizer.eos_token_id,
     eod_id |-> ckpt.tokenizer.eod_id,
     use_fast |-> (model[1].model_type # "llama")]

LoadTokenizer ==
    /\ pc = "load_tokenizer"
    /\ tokenizer' = Some(LoadedTokenizer)
    /\ steps' = Append(steps, "load_tokenizer")
    /\ pc' = "normalize_tokenizer"
    /\ UNCHANGED <<args, training_args, environ, zero3, ckpt, device_map,
                   model, train_dataset, data_collator, trainer, output_dir,
                   error, asserted, constructed>>

\* A normalization yields the tokenizer, the asserts evaluated on the way
\* and whether they all passed.

\* mutant: only pad_token_id is set from eod_id
NormalizeQWen_PadOnly(tok) ==
    [tokenizer |-> [tok EXCEPT !.pad_token_id = tok.eod_id],
     asserted |-> <<>>, ok |-> TRUE]

\* lines 84-86
NormalizeQWen(tok) ==
    [tokenizer |-> [tok EXCEPT !.pad_token_id = tok.eod_id,
                               !.bos_token_id = tok.eod_id,
                               !.eos_token_id = tok.eod_id],
     asserted |-> <<>>, ok |-> TRUE]

\* mutant: pad_token_id is overwritten with eos_token_id even when set
NormalizeOther_PadAlwaysEos(tok) ==
    IF tok.eos_token_id = None
    THEN [tokenizer |-> tok, asserted |-> <<"eos_token_id">>, ok |-> FALSE]
    ELSE IF tok.bos_token_id = None
    THEN [tokenizer |-> tok,
          asserted |-> <<"eos_token_id", "bos_token_id">>, ok |-> FALSE]
    ELSE [tokenizer |-> [tok EXCEPT !.pad_token_id = tok.eos_token_id],
          asserted |-> <<"eos_token_id", "bos_token_id">>, ok |-> TRUE]

\* lines 89-91: the second assert is reached only if the first passes
NormalizeOther(tok) ==
    IF tok.eos_token_id = None
    THEN [tokenizer |-> tok, asserted |-> <<"eos_token_id">>, ok |-> FALSE]
    ELSE IF tok.bos_token_id = None
    THEN [tokenizer |-> tok,
          asserted |-> <<"eos_token_id", "bos_token_id">>, ok |-> FALSE]
    ELSE [tokenizer |->
             [tok EXCEPT !.pad_token_id =
                 IF tok.pad_token_id = None THEN tok.eos_token_id
                 ELSE tok.pad_token_id],
          asserted |-> <<"eos_token_id", "bos_token_id">>, ok |-> TRUE]

\* mutant: ChatGLMTokenizer is treated like every other tokenizer
Normalize_ChatGLMNotExempt(tok) ==
    IF tok.cls = "QWenTokenizer" THEN NormalizeQWen(tok)
    ELSE NormalizeOther(tok)

\* lines 83-91
Normalize(tok) ==
    IF tok.cls = "QWenTokenizer" THEN NormalizeQWen(tok)
    ELSE IF tok.cls # "ChatGLMTokenizer" THEN NormalizeOther(tok)
    ELSE [tokenizer |-> tok, asserted |-> <<>>, ok |-> TRUE]

NormalizeTokenizer ==
    /\ pc = "normalize_tokenizer"
    /\ LET r == Normalize(tokenizer[1]) IN
        /\ tokenizer' = Some(r.tokenizer)
        /\ asserted' = asserted \o r.asserted
        /\ IF r.ok
           THEN /\ pc' = "check_task_type"
                /\ steps' = Append(steps, "normalize_tokenizer")
                /\ error' = error
           ELSE /\ pc' = "failed"
                /\ error' = "AssertionError"
                /\ steps' = steps
    /\ UNCHANGED <<args, training_args, environ, zero3, ckpt, device_map,
                   model, train_dataset, data_collator, trainer, output_dir,
                   constructed>>

----------------------------------------------------------------------------
(* init_components: dataset, collator, Trainer *)

\* line 100
TaskTypeValid(task) == task \in {"sft", "pretrain"}

CheckTaskType ==
    /\ pc = "check_task_type"
    /\ asserted' = Append(asserted, "task_type")
    /\ IF TaskTypeValid(args.task_type)
       THEN /\ pc' = "build_dataset"
            /\ steps' = Append(steps, "check_task_type")
            /\ error' = error
       ELSE /\ pc' = "failed"
            /\ error' = "AssertionError"
            /\ steps' = steps
    /\ UNCHANGED <<args, training_args, environ, zero3, ckpt, device_map,
                   model, tokenizer, train_dataset, data_collator, trainer,
                   output_dir, constructed>>

\* mutant: qwen is tested before zephyr
SelectByMarkers_QwenBeforeZephyr(lname) ==
    IF Contains(lname, m_chatglm2) THEN "ChatGLM2SFTDataset"
    ELSE IF Contains(lname, m_chatglm3) THEN "ChatGLM3SFTDataset"
    ELSE IF Contains(lname, m_mistral) \/ Contains(lname, m_mixtral)
         THEN "MistralSFTDataset"
    ELSE IF Contains(lname, m_qwen) THEN "QwenSFTDataset"
    ELSE IF Contains(lname, m_zephyr) THEN "ZephyrSFTDataset"
    ELSE "SFTDataset"

\* lines 110-123: the if/elif chain over the lower-cased name
SelectByMarkers(lname) ==
    IF Contains(lname, m_chatglm2) THEN "ChatGLM2SFTDataset"
    ELSE IF Contains(lname, m_chatglm3) THEN "ChatGLM3SFTDataset"
    ELSE IF Contains(lname, m_mistral) \/ Contains(lname, m_mixtral)
         THEN "MistralSFTDataset"
    ELSE IF Contains(lname, m_zephyr) THEN "ZephyrSFTDataset"
    ELSE IF Contains(lname, m_qwen) THEN "QwenSFTDataset"
    ELSE "SFTDataset"

\* mutant: the name is matched as it is written
SelectSFTDataset_CaseSensitive(name) == SelectByMarkers(name)

\* args.model_name_or_path.lower() in each test of lines 110-119
SelectSFTDataset(name) == SelectByMarkers(Lower(name))

\* lines 103-123: the dataset classes instantiated, in order
DatasetsBuilt(task, name) ==
    IF task = "pretrain" THEN <<"LazyPretrainDataset">>
    ELSE <<SelectSFTDataset(name)>>

\* mutant: the sft collator whatever the task
CollatorBuilt_AlwaysSFT(task) == "SFTDataCollator"

\* lines 107 and 125
CollatorBuilt(task) ==
    IF task = "pretrain" THEN "PretrainCollator" ELSE "SFTDataCollator"

\* mutant: the collator is never built
BuildDataset_SkipsCollator ==
    /\ pc = "build_dataset"
    /\ LET built == DatasetsBuilt(args.task_type, args.model_name_or_path) IN
        /\ constructed' = constructed \o built
        /\ train_dataset' = built[Len(built)]
    /\ steps' = Append(steps, "build_dataset")
    /\ pc' = "build_trainer"
    /\ UNCHANGED <<args, training_args, environ, zero3, ckpt, device_map,
                   model, tokenizer, data_collator, trainer, output_dir,
                   error, asserted>>

BuildDataset ==
    /\ pc = "build_dataset"
    /\ LET built == DatasetsBuilt(args.task_type, args.model_name_or_path) IN
        /\ constructed' = constructed \o built
        /\ train_dataset' = built[Len(built)]
    /\ steps' = Append(steps, "build_dataset")
    /\ pc' = "build_collator"
    /\ UNCHANGED <<args, training_args, environ, zero3, ckpt, device_map,
                   model, tokenizer, data_collator, trainer, output_dir,
                   error, asserted>>

BuildCollator ==
    /\ pc = "build_collator"
    /\ data_collator' = CollatorBuilt(args.task_type)
    /\ steps' = Append(steps, "build_collator")
    /\ pc' = "build_trainer"
    /\ UNCHANGED <<args, training_args, environ, zero3, ckpt, device_map,
                   model, tokenizer, train_dataset, trainer, output_dir,
                   error, asserted, constructed>>

BuildTrainer ==
    /\ pc = "build_trainer"
    /\ steps' = Append(steps, "build_trainer")
    /\ trainer' = "Trainer"
    /\ pc' = "train"
    /\ UNCHANGED <<args, training_args, environ, zero3, ckpt, device_map,
                   model, tokenizer, train_dataset, data_collator, output_dir,
                   error, asserted, constructed>>

----------------------------------------------------------------------------
(* main: training and the final saves *)

Train ==
    /\ pc = "train"
    /\ steps' = Append(steps, "train")
    /\ pc' = "save_model"
    /\ UNCHANGED <<args, training_args, environ, zero3, ckpt, device_map,
                   model, tokenizer, train_dataset, data_collator, trainer,
                   output_dir, error, asserted, constructed>>

\* trainer.save_model(final_save_path)
SaveModel ==
    /\ pc = "save_model"
    /\ steps' = Append(steps, "save_model")
    /\ output_dir' = output_dir \cup {"model"}
    /\ pc' = "save_metrics"
    /\ UNCHANGED <<args, training_args, environ, zero3, ckpt, device_map,
                   model, tokenizer, train_dataset, data_collator, trainer,
                   error, asserted, constructed>>

\* mutant: the metrics are written before the model
SaveMetrics_BeforeModel ==
    /\ pc = "save_model"
    /\ steps' = Append(steps, "save_metrics")
    /\ output_dir' = output_dir \cup {"metrics"}
    /\ pc' = "save_metrics"
    /\ UNCHANGED <<args, training_args, environ, zero3, ckpt, device_map,
                   model, tokenizer, train_dataset, data_collator, trainer,
                   error, asserted, constructed>>

\* trainer.log_metrics and trainer.save_metrics
SaveMetrics ==
    /\ pc = "save_metrics"
    /\ steps' = Append(steps, "save_metrics")
    /\ output_dir' = output_dir \cup {"metrics"}
    /\ pc' = "save_state"
    /\ UNCHANGED <<args, training_args, environ, zero3, ckpt, device_map,
                   model, tokenizer, train_dataset, data_collator, trainer,
                   error, asserted, constructed>>

\* trainer.save_state(), after which main returns
SaveState ==
    /\ pc = "save_state"
    /\ output_dir' = output_dir \cup {"trainer_state"}
    /\ steps' = Append(steps, "save_state")
    /\ pc' = "done"
    /\ UNCHANGED <<args, training_args, environ, zero3, ckpt, device_map,
                   model, tokenizer, train_dataset, data_collator, trainer,
                   error, asserted, constructed>>

\* the calls into argparse, transformers and the component package, any of
\* which may raise; nothing in train.py catches an exception
ExternalCallPoints ==
    {"start", "load_model", "load_tokenizer", "build_dataset",
     "build_collator", "build_trainer", "train", "save_model",
     "save_metrics", "save_state"}

ExternalFailure ==
    /\ pc \in ExternalCallPoints
    /\ pc = "load_model" => DeviceMapArgReadable
    /\ error' = "ExternalError"
    /\ pc' = "failed"
    /\ UNCHANGED <<args, training_args, environ, zero3, ckpt, device_map,
                   model, tokenizer, train_dataset, data_collator, trainer,
                   output_dir, steps, asserted, constructed>>

----------------------------------------------------------------------------
Next ==
    \/ SetupEverything
    \/ InitDistributed
    \/ LoadModel
    \/ LoadTokenizer
    \/ NormalizeTokenizer
    \/ CheckTaskType
    \/ BuildDataset
    \/ BuildCollator
    \/ BuildTrainer
    \/ Train
    \/ SaveModel
    \/ SaveMetrics
    \/ SaveState
    \/ ExternalFailure

Spec == Init /\ [][Next]_vars

SpecTok == InitTok /\ [][Next]_vars

----------------------------------------------------------------------------
(* Vocabulary of the properties *)

Did(step) == \E i \in 1..Len(steps) : steps[i] = step

\* c and the lower-case letter d are the same letter, case ignored
SameLetter(c, d) ==
    c = d \/ \E i \in 1..26 : UpperChars[i] = c /\ LowerChars[i] = d

\* the lower-case marker occurs in s, case ignored
OccursIgnoringCase(s, marker) ==
    \E i \in 0..(Len(s) - Len(marker)) :
        \A j \in 1..Len(marker) : SameLetter(s[i + j], marker[j])

\* the five families in the order of the spec, their markers and classes
FamilyMarkers ==
    << {m_chatglm2}, {m_chatglm3}, {m_mistral, m_mixtral}, {m_zephyr},
       {m_qwen} >>
FamilyClass ==
    << "ChatGLM2SFTDataset", "ChatGLM3SFTDataset", "MistralSFTDataset",
       "ZephyrSFTDataset", "QwenSFTDataset" >>

FamiliesIn(name) ==
    { k \in 1..5 : \E m \in FamilyMarkers[k] : OccursIgnoringCase(name, m) }

SFTClasses == { FamilyClass[k] : k \in 1..5 } \cup {"SFTDataset"}

Exempt(cls) == cls \in {"QWenTokenizer", "ChatGLMTokenizer"}

Halted == pc \in {"done", "failed"}

----------------------------------------------------------------------------
(* C1 *)

\* C1: with task_type sft, a name without any family marker gets the generic
\* SFTDataset, and a name with a marker (case ignored) gets the dataset class
\* of a family whose marker it contains - of the family, when there is one.
C1_FamilyDatasetSelected ==
    (args.task_type = "sft" /\ train_dataset # "None") =>
        LET fams == FamiliesIn(args.model_name_or_path) IN
        /\ fams = {} => train_dataset = "SFTDataset"
        /\ fams # {} => \E k \in fams : train_dataset = FamilyClass[k]

\* a mixed-case name of the Qwen family alone has got QwenSFTDataset
C1_Witness ==
    /\ args.task_type = "sft"
    /\ args.model_name_or_path # Lower(args.model_name_or_path)
    /\ FamiliesIn(args.model_name_or_path) = {5}
    /\ train_dataset = "QwenSFTDataset"

----------------------------------------------------------------------------
(* C2 *)

\* C2: with task_type sft and a name that contains markers of several
\* families, the dataset is that of the family that comes first in the order
\* chatglm2, chatglm3, mistral/mixtral, zephyr, qwen, wherever the markers
\* stand in the name, and exactly one dataset has been constructed.
C2_FirstMarkerInOrderWins ==
    (args.task_type = "sft" /\ train_dataset # "None") =>
        LET fams == FamiliesIn(args.model_name_or_path) IN
        /\ Cardinality(fams) >= 2 =>
              \E k \in fams : /\ \A l \in fams : k <= l
                              /\ train_dataset = FamilyClass[k]
        /\ constructed = <<train_dataset>>

\* the name starts with chatglm3 and holds chatglm2 later: ChatGLM2 is chosen
C2_Witness ==
    /\ args.task_type = "sft"
    /\ Len(args.model_name_or_path) > 8
    /\ Lower(SubSeq(args.model_name_or_path, 1, 8)) = m_chatglm3
    /\ 1 \in FamiliesIn(args.model_name_or_path)
    /\ train_dataset = "ChatGLM2SFTDataset"

----------------------------------------------------------------------------
(* C7 *)

\* C7: with task_type pretrain every name, family markers included, gets
\* LazyPretrainDataset with PretrainCollator and no sft dataset is ever
\* constructed; with task_type sft the collator is SFTDataCollator, beside a
\* dataset of the sft classes.
C7_PairFixedByTaskType ==
    /\ (args.task_type = "pretrain" /\ train_dataset # "None") =>
          /\ train_dataset = "LazyPretrainDataset"
          /\ \A i \in 1..Len(constructed) : constructed[i] \notin SFTClasses
    /\ (args.task_type = "pretrain" /\ data_collator # "None") =>
          /\ data_collator = "PretrainCollator"
          /\ train_dataset = "LazyPretrainDataset"
    /\ (args.task_type = "sft" /\ data_collator # "None") =>
          /\ data_collator = "SFTDataCollator"
          /\ train_dataset \in SFTClasses

\* a pretrain run on a name of the Qwen family has built the pretrain pair
C7_Witness ==
    /\ args.task_type = "pretrain"
    /\ 5 \in FamiliesIn(args.model_name_or_path)
    /\ train_dataset = "LazyPretrainDataset"
    /\ data_collator = "PretrainCollator"

----------------------------------------------------------------------------
(* C3 *)

\* C3: for a tokenizer that is neither QWenTokenizer nor ChatGLMTokenizer and
\* came with bos_token_id and eos_token_id set, once normalization is done
\* pad_token_id is eos_token_id if it came unset and is its former value
\* otherwise.
C3_PadDefaultsToEos ==
    LET before == ckpt.tokenizer IN
    ( /\ Did("normalize_tokenizer")
      /\ ~Exempt(before.cls)
      /\ before.bos_token_id # None
      /\ before.eos_token_id # None ) =>
        tokenizer[1].pad_token_id =
            IF before.pad_token_id = None THEN before.eos_token_id
            ELSE before.pad_token_id

\* a tokenizer that came without pad_token_id has been given that of eos
C3_Witness ==
    /\ Did("normalize_tokenizer")
    /\ ~Exempt(ckpt.tokenizer.cls)
    /\ ckpt.tokenizer.pad_token_id = None
    /\ ckpt.tokenizer.bos_token_id # None
    /\ ckpt.tokenizer.eos_token_id # None
    /\ tokenizer[1].pad_token_id = ckpt.tokenizer.eos_token_id

----------------------------------------------------------------------------
(* C6 *)

\* C6: for a QWenTokenizer, once normalization is done pad_token_id,
\* bos_token_id and eos_token_id all equal eod_id, whatever they were.
C6_QWenAllEod ==
    (Did("normalize_tokenizer") /\ ckpt.tokenizer.cls = "QWenTokenizer") =>
        /\ tokenizer[1].pad_token_id = ckpt.tokenizer.eod_id
        /\ tokenizer[1].bos_token_id = ckpt.tokenizer.eod_id
        /\ tokenizer[1].eos_token_id = ckpt.tokenizer.eod_id

\* a QWenTokenizer whose three identifiers were set to something else than
\* eod_id has been normalized
C6_Witness ==
    /\ Did("normalize_tokenizer")
    /\ ckpt.tokenizer.cls = "QWenTokenizer"
    /\ ckpt.tokenizer.pad_token_id \notin {None, ckpt.tokenizer.eod_id}
    /\ ckpt.tokenizer.bos_token_id \notin {None, ckpt.tokenizer.eod_id}
    /\ ckpt.tokenizer.eos_token_id \notin {None, ckpt.tokenizer.eod_id}
    /\ tokenizer[1].bos_token_id = ckpt.tokenizer.eod_id

----------------------------------------------------------------------------
(* C8 *)

\* C8: for a ChatGLMTokenizer the three identifiers are, from the load on and
\* so after normalization, those the tokenizer came with, unset ones
\* included, and neither the eos nor the bos assertion is ever evaluated.
C8_ChatGLMUntouched ==
    (tokenizer # <<>> /\ ckpt.tokenizer.cls = "ChatGLMTokenizer") =>
        /\ tokenizer[1].pad_token_id = ckpt.tokenizer.pad_token_id
        /\ tokenizer[1].bos_token_id = ckpt.tokenizer.bos_token_id
        /\ tokenizer[1].eos_token_id = ckpt.tokenizer.eos_token_id
        /\ \A i \in 1..Len(asserted) :
               asserted[i] \notin {"eos_token_id", "bos_token_id"}

\* a ChatGLMTokenizer without pad and bos has passed normalization
C8_Witness ==
    /\ Did("normalize_tokenizer")
    /\ ckpt.tokenizer.cls = "ChatGLMTokenizer"
    /\ tokenizer[1].pad_token_id = None
    /\ tokenizer[1].bos_token_id = None
    /\ tokenizer[1].eos_token_id # None

----------------------------------------------------------------------------
(* C5 *)

\* C5: the model is saved after training and before the metrics, and the
\* metrics before the trainer state; so whatever the point at which the run
\* stops, the output directory holds metrics or trainer state only beside a
\* saved model.
C5_ModelSavedBeforeMetrics ==
    /\ "model" \in output_dir => Did("train")
    /\ "metrics" \in output_dir => "model" \in output_dir
    /\ "trainer_state" \in output_dir =>
           {"model", "metrics"} \subseteq output_dir

\* the run broke off in save_state, with the model and the metrics written
C5_Witness ==
    /\ pc = "failed"
    /\ error = "ExternalError"
    /\ output_dir = {"train.log", "model", "metrics"}

----------------------------------------------------------------------------
(* C9 *)

\* the steps of the call chain that the spec names, each time it is entered
ChainName(step) ==
    CASE step = "setup_everything" -> "parse"
      [] step = "load_tokenizer" -> "load tokenizer"
      [] step = "load_model" -> "load model"
      [] step = "build_dataset" -> "build dataset"
      [] step = "build_collator" -> "build collator"
      [] step \in {"build_trainer", "train"} -> "run trainer"
      [] step \in {"save_model", "save_metrics", "save_state"} -> "save"
      [] OTHER -> "-"

RECURSIVE Chain(_)
Chain(ss) ==
    IF ss = <<>> THEN <<>>
    ELSE LET rest == Chain(Tail(ss))
             n == ChainName(Head(ss)) IN
         IF n = "-" \/ (rest # <<>> /\ Head(rest) = n) THEN rest
         ELSE <<n>> \o rest

StatementsInOrder ==
    << "setup_everything", "init_distributed", "load_model",
       "load_tokenizer", "normalize_tokenizer", "check_task_type",
       "build_dataset", "build_collator", "build_trainer", "train",
       "save_model", "save_metrics", "save_state" >>

\* C9 as stated: a successful run is parse, load tokenizer, load model, build
\* dataset, build collator, run trainer, save, in this order.
C9_TokenizerBeforeModel ==
    pc = "done" =>
        Chain(steps) = << "parse", "load tokenizer", "load model",
                          "build dataset", "build collator", "run trainer",
                          "save" >>

\* C9 amended: a successful run is parse, load model, load tokenizer, build
\* dataset, build collator, run trainer, save, in this order; at any moment
\* the steps done are an initial part of that one sequence, none repeated or
\* skipped.
C9_ModelBeforeTokenizer ==
    /\ Len(steps) <= Len(StatementsInOrder)
    /\ steps = SubSeq(StatementsInOrder, 1, Len(steps))
    /\ pc = "done" =>
          /\ steps = StatementsInOrder
          /\ Chain(steps) = << "parse", "load model", "load tokenizer",
                               "build dataset", "build collator",
                               "run trainer", "save" >>

\* a run has come to its end
C9_Witness ==
    /\ pc = "done"
    /\ error = "none"
    /\ trainer = "Trainer"
    /\ {"model", "metrics", "trainer_state"} \subseteq output_dir

----------------------------------------------------------------------------
(* C4 *)

\* the task type is known and the tokenizer is exempt or has bos and eos
ConfigurationAccepted ==
    /\ TaskTypeValid(args.task_type)
    /\ \/ Exempt(ckpt.tokenizer.cls)
       \/ /\ ckpt.tokenizer.bos_token_id # None
          /\ ckpt.tokenizer.eos_token_id # None

NothingBuilt ==
    /\ train_dataset = "None"
    /\ data_collator = "None"
    /\ trainer = "None"
    /\ constructed = <<>>

\* C4: a dataset, a collator or a Trainer exists only if the task type is sft
\* or pretrain and the tokenizer is exempt or has bos and eos; otherwise
\* init_components, unless a library call fails first, ends in an
\* AssertionError with nothing built, no training and nothing saved.
C4_RejectedByAssertion ==
    /\ ~NothingBuilt => ConfigurationAccepted
    /\ (~ConfigurationAccepted /\ Halted /\ error # "ExternalError") =>
          /\ error = "AssertionError"
          /\ NothingBuilt
          /\ ~Did("train")
          /\ output_dir \subseteq {"train.log"}

----------------------------------------------------------------------------
(* C10 *)

\* C10: in a run with WORLD_SIZE unset or 1, init_components gets past the
\* model load, with or without ZeRO-3, unless the library call itself fails.
C10_NonDistributedLoadsModel ==
    ( /\ WorldSize(environ) = 1
      /\ pc \notin {"start", "init_distributed", "load_model"}
      /\ error # "ExternalError" ) =>
        /\ model # <<>>
        /\ error # "UnboundLocalError"

====
